---------------------------- MODULE Spec2Model ----------------------------
(***************************************************************************)
(* A model of the local-cache and coordination core of the streaming       *)
(* library:                                                                *)
(*   - the shared-memory prefix allocator (streaming/base/shared/prefix.py)*)
(*   - the per-file phase lifecycle (streaming/format/base/file.py)        *)
(*   - the registration record format (_pack_locals, _unpack_locals)       *)
(*   - the eviction policy as init_dir applies it                          *)
(*   - the dual-shard writer's flush (format/base/writer/dual_row.py)      *)
(* Each part has its own specification (SpecPrefix, SpecFile, SpecPack,    *)
(* SpecPolicy, SpecWriter); the variables of the other parts are held      *)
(* fixed.                                                                  *)
(***************************************************************************)
EXTENDS Integers, Sequences, FiniteSets, TLC

VARIABLES
    \* ---- prefix allocator ----
    my_locals,     \* my_locals[g]: the list of local dirs group g passes in
    shm,           \* shm[m][name]: the shared memory blocks of machine m
    pc,            \* pc[p]: where process p is in get_shm_prefix
    prefix_int,    \* prefix_int[p]: the loop variable of p's scan
    dist_init,     \* dist_init[p]: dist.is_initialized() in process p
    destroy_dist,  \* destroy_dist[p]: the local flag of line 96
    ret,           \* ret[p]: the prefix p returned (<<>> before it returns)
    was_init,      \* dist.is_initialized() when the processes entered
    \* ---- shard file ----
    zip_phase,     \* whether the file has a compressed phase
    can_phase,     \* whether the file has a canonical phase
    can_size,      \* can_phase.size, 0 for None
    keep,          \* stream.safe_keep_phases: the phases the keep-spec requires
    disk,          \* disk[f]: bytes of file f in the local directory, 0 if absent
    fpc,           \* where the process is: down, idle, or inside load()
    ddu,           \* the delta the running load() has accumulated
    io,            \* transfers, transitions and deletions the latest load() made
    usage,         \* the caller's counter: the sum of the deltas returned to it
    last_op,       \* the latest call (or crash)
    last_ret,      \* how it ended
    last_delta,    \* the delta it returned
    streak,        \* load() calls that returned one directly after the other
    calls,         \* calls made so far
    misused,       \* evict_phases was asked to delete a phase the file has not
    last_arg,      \* the deletion vector given to the latest call (none: all false)
    download_max_size,  \* stream.download_max_size, 0 for None
    valid,         \* how validate() ended: none (not called), ok, size_limit
    \* ---- registration record format ----
    locals_in,     \* the set of directory names given to _pack_locals
    buf_len,       \* the length of the block the record is stored in
    record,        \* bytes(shm.buf) after the record is stored
    decoded,       \* what _unpack_locals makes of it
    cpc,           \* pack, unpack, done
    \* ---- eviction policy ----
    vec,           \* the locality vector
    keep_spec,     \* the phases the keep-spec requires
    dels1,         \* the deletion vector of the first application
    dels2,         \* the deletion vector of the second application
    epc,           \* decide, apply, again, done
    \* ---- shard writer ----
    compression,   \* whether the writer compresses its files
    event,         \* self.event: set by the callback of a failed upload
    shards,        \* self.shards: the shard descriptors recorded so far
    tasks,         \* the uploads submitted to the executor, in order
    shutdown,      \* the executor was shut down by cancel_future_jobs
    wpc,           \* where the writing thread is: idle or inside flush_shard
    flushes,       \* flush_shard calls made so far
    entered_late   \* the running flush_shard was entered after an upload failed

pvars == <<my_locals, shm, pc, prefix_int, dist_init, destroy_dist, ret, was_init>>

fvars == <<zip_phase, can_phase, can_size, keep, disk, fpc, ddu, io, usage,
           last_op, last_ret, last_delta, streak, calls, misused, last_arg,
           download_max_size, valid>>

cvars == <<locals_in, buf_len, record, decoded, cpc>>

evars == <<vec, keep_spec, dels1, dels2, epc>>

wvars == <<compression, event, shards, tasks, shutdown, wpc, flushes, entered_late>>

vars == <<pvars, fvars, cvars, evars, wvars>>

----------------------------------------------------------------------------
(* Bounds *)

\* Slots the scan may visit: the model's range(10**6).
NumSlots == 3

\* Calls made on one shard file in a run.
MaxCalls == 3

\* The declared sizes of the compressed, raw and canonical phases.
ZipSize == 2
RawSize == 3
CanSize == 4

----------------------------------------------------------------------------
(* Strings are sequences of code points, bytes are sequences of 0..255. *)

Min(a, b) == IF a < b THEN a ELSE b
Max(a, b) == IF a > b THEN a ELSE b

Zeros(n) == [i \in 1..n |-> 0]

\* "/a" and "/b"
DirA == <<47, 97>>
DirB == <<47, 98>>

\* str.encode('utf-8') for code points below 2048 (one or two bytes each).
RECURSIVE Utf8Encode(_)
Utf8Encode(s) ==
    IF s = <<>> THEN <<>>
    ELSE LET c == Head(s) IN
         (IF c < 128 THEN <<c>> ELSE <<192 + (c \div 64), 128 + (c % 64)>>)
            \o Utf8Encode(Tail(s))

\* bytes.decode('utf-8') on what Utf8Encode produces; a byte that starts no
\* valid sequence is kept as it is.
RECURSIVE Utf8Decode(_)
Utf8Decode(b) ==
    IF b = <<>> THEN <<>>
    ELSE IF Head(b) >= 192 /\ Len(b) >= 2
         THEN <<(Head(b) - 192) * 64 + (b[2] - 128)>> \o Utf8Decode(Tail(Tail(b)))
         ELSE <<Head(b)>> \o Utf8Decode(Tail(b))

\* Python's ordering of str: lexicographic by code point.
RECURSIVE StrLess(_, _)
StrLess(s, t) ==
    IF t = <<>> THEN FALSE
    ELSE IF s = <<>> THEN TRUE
    ELSE IF Head(s) # Head(t) THEN Head(s) < Head(t)
    ELSE StrLess(Tail(s), Tail(t))

\* sorted(dirnames)
RECURSIVE SortedSeq(_)
SortedSeq(S) ==
    IF S = {} THEN <<>>
    ELSE LET m == CHOOSE x \in S : \A y \in S \ {x} : StrLess(x, y)
         IN <<m>> \o SortedSeq(S \ {m})

\* sep.join(parts)
RECURSIVE Join(_, _)
Join(parts, sep) ==
    IF parts = <<>> THEN <<>>
    ELSE IF Len(parts) = 1 THEN parts[1]
    ELSE parts[1] \o sep \o Join(Tail(parts), sep)

\* text.split(sep) for a one-character separator, as a sequence of pieces
RECURSIVE Split(_, _)
Split(text, c) ==
    IF \A i \in 1..Len(text) : text[i] # c THEN <<text>>
    ELSE LET k == CHOOSE i \in 1..Len(text) :
                      text[i] = c /\ \A j \in 1..(i - 1) : text[j] # c
         IN <<SubSeq(text, 1, k - 1)>> \o Split(SubSeq(text, k + 1, Len(text)), c)

SeqToSet(s) == {s[i] : i \in 1..Len(s)}

\* np.int32(n).tobytes(): four bytes, little endian, two's complement
Int32ToBytes(n) ==
    <<n % 256, (n \div 256) % 256, (n \div 65536) % 256, (n \div 16777216) % 256>>

\* np.frombuffer(b, np.int32)[0]
Int32FromBytes(b) ==
    b[1] + 256 * b[2] + 65536 * b[3]
        + 16777216 * (IF b[4] >= 128 THEN b[4] - 256 ELSE b[4])

\* data[lo:hi] of Python, lo >= 0
Slice(data, lo, hi) ==
    LET h == Min(IF hi < 0 THEN Max(Len(data) + hi, 0) ELSE hi, Len(data))
    IN IF h <= lo THEN <<>> ELSE SubSeq(data, lo + 1, h)

\* _pack_locals: length header, then the sorted names joined by NUL
_pack_locals(dirnames) ==
    LET text == Join(SortedSeq(dirnames), <<0>>)
        data == Utf8Encode(text)
        size == 4 + Len(data)
    IN Int32ToBytes(size) \o data

\* _unpack_locals
_unpack_locals(data) ==
    LET size == Int32FromBytes(SubSeq(data, 1, 4))
        text == Utf8Decode(Slice(data, 4, size))
    IN SeqToSet(Split(text, 0))

\* f'{prefix_int:06}' as six decimal digits
Pow10(k) == IF k = 0 THEN 1 ELSE IF k = 1 THEN 10 ELSE IF k = 2 THEN 100
            ELSE IF k = 3 THEN 1000 ELSE IF k = 4 THEN 10000 ELSE 100000
PrefixStr(n) == [i \in 1..6 |-> (n \div Pow10(6 - i)) % 10]

----------------------------------------------------------------------------
(* The topology of the jobs (World): three process groups on two machines. *)

Machines == {1, 2}
Groups == {1, 2, 3}
Procs == {1, 2, 3, 4, 5}

\* group 1: a leader and a non-leader on machine 1;
\* group 2: one leader on each machine;  group 3: a single process.
GroupOf(p) == IF p \in {1, 2} THEN 1 ELSE IF p \in {3, 4} THEN 2 ELSE 3
MachineOf(p) == IF p = 4 THEN 2 ELSE 1
is_local_leader(p) == p # 2
Members(g) == {p \in Procs : GroupOf(p) = g}
num_ranks(p) == Cardinality(Members(GroupOf(p)))
LeaderOf(p) == CHOOSE q \in Members(GroupOf(p)) :
                   is_local_leader(q) /\ MachineOf(q) = MachineOf(p)

\* The lists of directories a group may pass in.
LocalLists(g) ==
    IF g = 1 THEN {<<>>, <<DirA>>}
    ELSE IF g = 2 THEN {<<DirA>>, <<DirB>>}
    ELSE {<<DirA>>, <<DirB>>, <<DirA, DirA>>, <<DirA, DirB>>}

Names == {PrefixStr(i) : i \in 0..(NumSlots - 1)}

\* A shared memory block: absent, or created by a process with a buffer.
NoShm == [st |-> "absent", owner |-> 0, buf |-> <<>>]

my_locals_set(p) == SeqToSet(my_locals[GroupOf(p)])

\* lines 64-68: the list holds some directory twice
HasDuplicate(list) == \E i, j \in 1..Len(list) : i < j /\ list[i] = list[j]

\* What bytes(shm.buf) can give: the buffer, or, while its creator has not
\* yet stored the data (line 93 runs after line 92 and is no atomic step),
\* any prefix of the data followed by the zeros the block was created with.
ReadBuf(rec) ==
    IF rec.st = "written" THEN {rec.buf}
    ELSE LET data == _pack_locals(my_locals_set(rec.owner))
         IN {SubSeq(data, 1, k) \o Zeros(Len(rec.buf) - k) : k \in 0..Len(data)}

----------------------------------------------------------------------------
(* get_shm_prefix, one action per step that other processes can observe. *)

PInit ==
    /\ my_locals \in {f \in [Groups -> UNION {LocalLists(g) : g \in Groups}] :
                         \A g \in Groups : f[g] \in LocalLists(g)}
    /\ shm = [m \in Machines |-> [n \in Names |-> NoShm]]
    /\ pc = [p \in Procs |-> "start"]
    /\ prefix_int = [p \in Procs |-> 0]
    /\ was_init \in BOOLEAN
    /\ dist_init = [p \in Procs |-> was_init]
    /\ destroy_dist = [p \in Procs |-> FALSE]
    /\ ret = [p \in Procs |-> <<>>]

\* ToBarrier1 with destroy_dist set whenever the group has several ranks
ToBarrier1_AlwaysDestroy(p) ==
    IF 1 < num_ranks(p)
    THEN /\ dist_init' = [dist_init EXCEPT ![p] = TRUE]
         /\ destroy_dist' = [destroy_dist EXCEPT ![p] = TRUE]
         /\ pc' = [pc EXCEPT ![p] = "barrier1"]
    ELSE /\ UNCHANGED <<dist_init, destroy_dist>>
         /\ pc' = [pc EXCEPT ![p] = IF dist_init[p] THEN "barrier2" ELSE "return"]

\* lines 96-102 for process p: the values of (dist_init, destroy_dist, pc)
\* when p goes on to the first barrier
ToBarrier1(p) ==
    IF 1 < num_ranks(p)
    THEN /\ dist_init' = [dist_init EXCEPT ![p] = TRUE]
         /\ destroy_dist' = [destroy_dist EXCEPT ![p] = ~dist_init[p]]
         /\ pc' = [pc EXCEPT ![p] = "barrier1"]
    ELSE /\ UNCHANGED <<dist_init, destroy_dist>>
         /\ pc' = [pc EXCEPT ![p] = IF dist_init[p] THEN "barrier2" ELSE "return"]

\* lines 64-71: the duplicate check; a leader goes on to its scan, any other
\* process to the first barrier
Enter(p) ==
    /\ pc[p] = "start"
    /\ IF HasDuplicate(my_locals[GroupOf(p)])
       THEN /\ pc' = [pc EXCEPT ![p] = "fail_dup"]
            /\ UNCHANGED <<dist_init, destroy_dist>>
       ELSE IF is_local_leader(p)
       THEN /\ pc' = [pc EXCEPT ![p] = "scan"]
            /\ UNCHANGED <<dist_init, destroy_dist>>
       ELSE ToBarrier1(p)
    /\ UNCHANGED <<fvars, cvars, evars, wvars, was_init, my_locals, shm, prefix_int, ret>>

\* lines 75-86: one iteration of the leader's loop
LeaderAttach(p) ==
    /\ pc[p] = "scan"
    /\ LET rec == shm[MachineOf(p)][PrefixStr(prefix_int[p])] IN
       IF rec.st = "absent"
       THEN /\ pc' = [pc EXCEPT ![p] = "create"]
            /\ UNCHANGED prefix_int
       ELSE \E data \in ReadBuf(rec) :
              LET their_locals_set == _unpack_locals(data)
                  both == my_locals_set(p) \cap their_locals_set
              IN IF both # {}
                    THEN /\ pc' = [pc EXCEPT ![p] = "fail_overlap"]
                         /\ UNCHANGED prefix_int
                    ELSE IF prefix_int[p] + 1 < NumSlots
                    THEN /\ prefix_int' = [prefix_int EXCEPT ![p] = @ + 1]
                         /\ UNCHANGED pc
                    ELSE /\ pc' = [pc EXCEPT ![p] = "create"]
                         /\ UNCHANGED prefix_int
    /\ UNCHANGED <<fvars, cvars, evars, wvars, was_init, my_locals, shm, dist_init, destroy_dist, ret>>

\* lines 89-92: SharedMemory(name, True, len(data)); creating a block that
\* exists fails
LeaderCreate(p) ==
    /\ pc[p] = "create"
    /\ LET m == MachineOf(p)
           name == PrefixStr(prefix_int[p])
           data == _pack_locals(my_locals_set(p))
       IN IF shm[m][name].st # "absent"
          THEN /\ pc' = [pc EXCEPT ![p] = "fail_exists"]
               /\ UNCHANGED shm
          ELSE /\ shm' = [shm EXCEPT ![m][name] =
                            [st |-> "created", owner |-> p,
                             buf |-> Zeros(Len(data))]]
               /\ pc' = [pc EXCEPT ![p] = "write"]
    /\ UNCHANGED <<fvars, cvars, evars, wvars, was_init, my_locals, prefix_int, dist_init, destroy_dist, ret>>

\* line 93: shm.buf[:len(data)] = data, then lines 96-102
LeaderWrite(p) ==
    /\ pc[p] = "write"
    /\ LET m == MachineOf(p)
           name == PrefixStr(prefix_int[p])
           data == _pack_locals(my_locals_set(p))
       IN shm' = [shm EXCEPT ![m][name].st = "written",
                             ![m][name].buf = data]
    /\ ToBarrier1(p)
    /\ UNCHANGED <<fvars, cvars, evars, wvars, was_init, my_locals, prefix_int, ret>>

\* A first barrier that lets go the ranks that have arrived
Barrier1_Early(g) ==
    /\ \E p \in Members(g) : pc[p] = "barrier1"
    /\ pc' = [p \in Procs |->
                IF GroupOf(p) # g \/ pc[p] # "barrier1" THEN pc[p]
                ELSE IF is_local_leader(p) THEN "barrier2" ELSE "nlscan"]
    /\ UNCHANGED <<fvars, cvars, evars, wvars, was_init, my_locals, shm, prefix_int,
                   dist_init, destroy_dist, ret>>

\* line 102: dist.barrier() lets the ranks go when all of them have arrived
Barrier1(g) ==
    /\ \A p \in Members(g) : pc[p] = "barrier1"
    /\ pc' = [p \in Procs |->
                IF GroupOf(p) # g THEN pc[p]
                ELSE IF is_local_leader(p) THEN "barrier2" ELSE "nlscan"]
    /\ UNCHANGED <<fvars, cvars, evars, wvars, was_init, my_locals, shm, prefix_int, dist_init, destroy_dist, ret>>

\* lines 106-115: one iteration of a non-leader's loop
NonLeaderAttach(p) ==
    /\ pc[p] = "nlscan"
    /\ LET rec == shm[MachineOf(p)][PrefixStr(prefix_int[p])] IN
       IF rec.st = "absent"
       THEN /\ pc' = [pc EXCEPT ![p] = "fail_internal"]
            /\ UNCHANGED prefix_int
       ELSE \E data \in ReadBuf(rec) :
              LET their_locals_set == _unpack_locals(data)
              IN IF my_locals_set(p) = their_locals_set
                       \/ prefix_int[p] + 1 >= NumSlots
                    THEN /\ pc' = [pc EXCEPT ![p] = "barrier2"]
                         /\ UNCHANGED prefix_int
                    ELSE /\ prefix_int' = [prefix_int EXCEPT ![p] = @ + 1]
                         /\ UNCHANGED pc
    /\ UNCHANGED <<fvars, cvars, evars, wvars, was_init, my_locals, shm, dist_init, destroy_dist, ret>>

\* lines 118-123 after the second barrier, for the processes in set ps
Returned(ps) ==
    /\ pc' = [p \in Procs |-> IF p \in ps THEN "done" ELSE pc[p]]
    /\ ret' = [p \in Procs |-> IF p \in ps THEN PrefixStr(prefix_int[p]) ELSE ret[p]]
    /\ dist_init' = [p \in Procs |->
                        IF p \in ps /\ destroy_dist[p] THEN FALSE ELSE dist_init[p]]

\* A second barrier that lets go the ranks that have arrived
Barrier2_Early(g) ==
    /\ \E p \in Members(g) : pc[p] = "barrier2"
    /\ Returned({p \in Members(g) : pc[p] = "barrier2"})
    /\ UNCHANGED <<fvars, cvars, evars, wvars, was_init, my_locals, shm, prefix_int,
                   destroy_dist>>

\* lines 118-123 with dist initialized: the second barrier, teardown, return
Barrier2(g) ==
    /\ \A p \in Members(g) : pc[p] = "barrier2"
    /\ Returned(Members(g))
    /\ UNCHANGED <<fvars, cvars, evars, wvars, was_init, my_locals, shm, prefix_int, destroy_dist>>

\* lines 118-123 with dist not initialized: no barrier
Return(p) ==
    /\ pc[p] = "return"
    /\ Returned({p})
    /\ UNCHANGED <<fvars, cvars, evars, wvars, was_init, my_locals, shm, prefix_int, destroy_dist>>

\* The processes of group g on machine m, all returned, end, and the block
\* their leader created goes with them.
Release(g, m) ==
    /\ \E p \in Members(g) : MachineOf(p) = m
    /\ \A p \in Members(g) : MachineOf(p) = m => pc[p] = "done"
    /\ pc' = [p \in Procs |->
                IF GroupOf(p) = g /\ MachineOf(p) = m THEN "exited" ELSE pc[p]]
    /\ shm' = [shm EXCEPT ![m] =
                 [n \in Names |->
                    IF shm[m][n].st # "absent" /\ GroupOf(shm[m][n].owner) = g
                    THEN NoShm ELSE shm[m][n]]]
    /\ UNCHANGED <<fvars, cvars, evars, wvars, was_init, my_locals, prefix_int, dist_init, destroy_dist, ret>>

PNext ==
    \/ \E p \in Procs : Enter(p)
    \/ \E p \in Procs : LeaderAttach(p)
    \/ \E p \in Procs : LeaderCreate(p)
    \/ \E p \in Procs : LeaderWrite(p)
    \/ \E g \in Groups : Barrier1(g)
    \/ \E p \in Procs : NonLeaderAttach(p)
    \/ \E g \in Groups : Barrier2(g)
    \/ \E p \in Procs : Return(p)
    \/ \E g \in Groups, m \in Machines : Release(g, m)

----------------------------------------------------------------------------
(* The shard file: its phases, the local directory, the eviction policy. *)

PhaseSet == {"zip", "raw", "can"}
Files == PhaseSet \cup {"tmp"}

\* self.phases = zip_phase, raw_phase, can_phase: is slot f filled?
HasPhase(f) == (f = "raw") \/ (f = "zip" /\ zip_phase) \/ (f = "can" /\ can_phase)

\* The phase the file is used in: canonical if present, else raw.
TerminalPhase == IF can_phase THEN "can" ELSE "raw"

\* Phase.is_local(): the file exists
is_local(f) == disk[f] > 0

\* Phase.evict() on directory d: the delta, minus the bytes deleted
PhaseEvict(d, f) == 0 - d[f]

\* Recursive listing of the local directory
Listing == {f \in Files : disk[f] > 0}

\* locate(): LOCAL or REMOTE by the listing, DNE for a slot not filled
locate(listing) ==
    [f \in PhaseSet |->
        IF HasPhase(f) THEN (IF f \in listing THEN "LOCAL" ELSE "REMOTE") ELSE "DNE"]

\* The eviction policy: a LOCAL phase outside the required set is deleted,
\* once every phase the keep-spec requires is resident; a slot that is DNE or
\* REMOTE is never flagged.
get_phase_deletions(phase_locs, K) ==
    [f \in PhaseSet |->
        /\ phase_locs[f] = "LOCAL"
        /\ f \notin K
        /\ \A k \in K : phase_locs[k] = "LOCAL"]

\* The keep-specs of a file: the last phase a keep-spec names is the file's
\* terminal phase or a later one, so the phase that is read is never dropped.
KeepSpecs(zp, cp) ==
    {K \in SUBSET PhaseSet : "can" \in K \/ (~cp /\ "raw" \in K)}

\* evict_phases deleting every phase of the file once any is flagged
EvictPhases_All(d, phase_dels) ==
    LET any == \E f \in PhaseSet : phase_dels[f]
        del(f) == any /\ HasPhase(f)
    IN [raised |-> \E f \in PhaseSet : phase_dels[f] /\ ~HasPhase(f),
        disk |-> [f \in Files |-> IF f \in PhaseSet /\ del(f) THEN 0 ELSE d[f]],
        ddu |-> (IF del("zip") THEN PhaseEvict(d, "zip") ELSE 0)
                  + (IF del("raw") THEN PhaseEvict(d, "raw") ELSE 0)
                  + (IF del("can") THEN PhaseEvict(d, "can") ELSE 0)]

\* evict_phases on directory d: the flagged slots in order; a flagged slot
\* that is not filled raises after the earlier flagged phases are deleted
EvictPhases(d, phase_dels) ==
    LET bad(f) == phase_dels[f] /\ ~HasPhase(f)
        reached(f) == IF f = "zip" THEN TRUE
                      ELSE IF f = "raw" THEN ~bad("zip")
                      ELSE ~bad("zip")
        del(f) == phase_dels[f] /\ HasPhase(f) /\ reached(f)
    IN [raised |-> \E f \in PhaseSet : bad(f),
        disk |-> [f \in Files |-> IF f \in PhaseSet /\ del(f) THEN 0 ELSE d[f]],
        ddu |-> (IF del("zip") THEN PhaseEvict(d, "zip") ELSE 0)
                  + (IF del("raw") THEN PhaseEvict(d, "raw") ELSE 0)
                  + (IF del("can") THEN PhaseEvict(d, "can") ELSE 0)]

NumDeleted(d, e) == Cardinality({f \in Files : d[f] > 0 /\ e[f] = 0})

\* A deletion vector that flags nothing
NoDels == [f \in PhaseSet |-> FALSE]

\* The values of stream.download_max_size: None (0), a limit below the
\* compressed size, and a limit between the compressed and the raw size
DownloadLimits == {0, ZipSize - 1, ZipSize}

\* Sizes a file can have that differ from the declared size n
WrongSizes(n) == {n - 1, n + 1}

FInit ==
    /\ zip_phase \in BOOLEAN
    /\ can_phase \in BOOLEAN
    /\ can_size \in (IF can_phase THEN {0, CanSize} ELSE {0})
    /\ keep \in KeepSpecs(zip_phase, can_phase)
    /\ disk \in {d \in [Files -> 0..(CanSize + 1)] :
                   /\ d["zip"] \in (IF zip_phase THEN {0, ZipSize} \cup WrongSizes(ZipSize)
                                    ELSE {0})
                   /\ d["raw"] \in {0, RawSize}
                   /\ d["can"] \in (IF can_phase THEN {0, CanSize} ELSE {0})
                   /\ d["tmp"] = 0}
    /\ fpc = "down"
    /\ ddu = 0
    /\ io = 0
    /\ usage = 0
    /\ last_op = "none"
    /\ last_ret = "none"
    /\ last_delta = 0
    /\ streak = 0
    /\ calls = 0
    /\ misused = FALSE
    /\ last_arg = NoDels
    /\ download_max_size \in DownloadLimits
    /\ valid = "none"

\* A call returns delta d to the caller
Returns(op, d) ==
    /\ fpc' = "idle"
    /\ last_op' = op
    /\ last_ret' = "ok"
    /\ last_delta' = d
    /\ usage' = usage + d
    /\ ddu' = 0
    /\ streak' = IF op = "load" THEN (IF streak < 2 THEN streak + 1 ELSE 2) ELSE 0

\* A call raises: the caller gets no delta
Raises(op, err) ==
    /\ fpc' = "idle"
    /\ last_op' = op
    /\ last_ret' = err
    /\ last_delta' = 0
    /\ usage' = usage
    /\ ddu' = 0
    /\ streak' = 0

\* load() goes on to step pos with d accumulated
Continues(pos, d) ==
    /\ fpc' = pos
    /\ last_op' = "load"
    /\ last_ret' = "running"
    /\ last_delta' = 0
    /\ ddu' = d
    /\ UNCHANGED <<usage, streak>>

\* validate(), lines 102-106: the loop over self.phases ends with the break
\* of line 106 after its first round, so the compressed slot is the only one
\* looked at; validate_for_download fails when the size is above the limit
Validate ==
    /\ fpc = "down"
    /\ valid = "none"
    /\ valid' = IF /\ download_max_size # 0
                   /\ HasPhase("zip")
                   /\ ZipSize > download_max_size
                THEN "size_limit" ELSE "ok"
    /\ UNCHANGED <<pvars, cvars, evars, wvars, zip_phase, can_phase, can_size, keep,
                   disk, fpc, ddu, io, usage, last_op, last_ret, last_delta, streak,
                   calls, misused, last_arg, download_max_size>>

\* init_dir(listing), the first call of a process on the file
InitDir ==
    /\ fpc = "down"
    /\ LET phase_locs == locate(Listing)
           du == disk["zip"] + disk["raw"] + disk["can"]
           phase_dels == get_phase_deletions(phase_locs, keep)
           ev == EvictPhases(disk, phase_dels)
       IN /\ disk' = ev.disk
          /\ fpc' = "idle"
          /\ usage' = du + ev.ddu
          /\ last_op' = "init_dir"
          /\ last_ret' = "ok"
          /\ last_delta' = du + ev.ddu
    /\ ddu' = 0
    /\ io' = 0
    /\ streak' = 0
    /\ last_arg' = NoDels
    /\ UNCHANGED <<pvars, cvars, evars, wvars, download_max_size, valid, misused, zip_phase, can_phase, can_size, keep, calls>>

\* LoadCall without the early return of lines 267-268
LoadCall_NoTerminalCheck ==
    /\ fpc = "idle"
    /\ calls < MaxCalls
    /\ calls' = calls + 1
    /\ io' = 0
    /\ IF is_local("raw")
       THEN (IF can_phase THEN Continues("canon", 0) ELSE Returns("load", 0))
       ELSE IF zip_phase
            THEN (IF is_local("zip") THEN Continues("unzip", 0)
                  ELSE Continues("dl_zip", 0))
       ELSE Continues("dl_raw", 0)
    /\ last_arg' = NoDels
    /\ UNCHANGED <<pvars, cvars, evars, wvars, download_max_size, valid, misused, zip_phase, can_phase, can_size, keep, disk>>

\* load() is called: lines 266-272 and 248-257 up to the first transfer or
\* transition
LoadCall ==
    /\ fpc = "idle"
    /\ calls < MaxCalls
    /\ calls' = calls + 1
    /\ io' = 0
    /\ IF can_phase /\ is_local("can") THEN Returns("load", 0)
       ELSE IF is_local("raw")
            THEN (IF can_phase THEN Continues("canon", 0) ELSE Returns("load", 0))
       ELSE IF zip_phase
            THEN (IF is_local("zip") THEN Continues("unzip", 0)
                  ELSE Continues("dl_zip", 0))
       ELSE Continues("dl_raw", 0)
    /\ last_arg' = NoDels
    /\ UNCHANGED <<pvars, cvars, evars, wvars, download_max_size, valid, misused, zip_phase, can_phase, can_size, keep, disk>>

\* zip_phase.download(): the file arrives whole with its declared size, or
\* the fetch fails
DownloadZip ==
    /\ fpc = "dl_zip"
    /\ \/ /\ disk' = [disk EXCEPT !["zip"] = ZipSize]
          /\ io' = io + 1
          /\ Continues("unzip", ddu + ZipSize)
       \/ /\ Raises("load", "fetch_error")
          /\ UNCHANGED <<disk, io>>
    /\ last_arg' = NoDels
    /\ UNCHANGED <<pvars, cvars, evars, wvars, download_max_size, valid, misused, zip_phase, can_phase, can_size, keep, calls>>

\* raw_phase.download(), line 257
DownloadRaw ==
    /\ fpc = "dl_raw"
    /\ \/ /\ disk' = [disk EXCEPT !["raw"] = RawSize]
          /\ io' = io + 1
          /\ IF can_phase THEN Continues("canon", ddu + RawSize)
             ELSE Returns("load", ddu + RawSize)
       \/ /\ Raises("load", "fetch_error")
          /\ UNCHANGED <<disk, io>>
    /\ last_arg' = NoDels
    /\ UNCHANGED <<pvars, cvars, evars, wvars, download_max_size, valid, misused, zip_phase, can_phase, can_size, keep, calls>>

\* UnzipRead without the check of the compressed length (lines 175-177)
UnzipRead_NoZipCheck ==
    /\ fpc = "unzip"
    /\ \E raw_len \in {RawSize} \cup WrongSizes(RawSize) :
          IF raw_len # RawSize THEN Raises("load", "raw_size")
          ELSE Continues("write_tmp", ddu)
    /\ last_arg' = NoDels
    /\ UNCHANGED <<pvars, cvars, evars, wvars, download_max_size, valid, misused, zip_phase, can_phase, can_size, keep, disk, io, calls>>

\* _unzip, lines 167-185: read the compressed file, check its length,
\* decompress, check the length of the result
UnzipRead ==
    /\ fpc = "unzip"
    /\ IF disk["zip"] # ZipSize
       THEN Raises("load", "zip_size")
       ELSE \E raw_len \in {RawSize} \cup WrongSizes(RawSize) :
              IF raw_len # RawSize THEN Raises("load", "raw_size")
              ELSE Continues("write_tmp", ddu)
    /\ last_arg' = NoDels
    /\ UNCHANGED <<pvars, cvars, evars, wvars, download_max_size, valid, misused, zip_phase, can_phase, can_size, keep, disk, io, calls>>

\* The decompressed data written straight to the raw path
RawWriteTarget_Direct == "raw"

\* line 189: the file the decompressed data is written to
RawWriteTarget == "tmp"

\* lines 190-191: the data is written
UnzipWrite ==
    /\ fpc = "write_tmp"
    /\ disk' = [disk EXCEPT ![RawWriteTarget] = RawSize]
    /\ io' = io + 1
    /\ Continues("rename", ddu)
    /\ last_arg' = NoDels
    /\ UNCHANGED <<pvars, cvars, evars, wvars, download_max_size, valid, misused, zip_phase, can_phase, can_size, keep, calls>>

\* line 192: os.rename
UnzipRename ==
    /\ fpc = "rename"
    /\ disk' = [f \in Files |->
                  IF f = "raw" THEN disk[RawWriteTarget]
                  ELSE IF f = RawWriteTarget THEN 0
                  ELSE disk[f]]
    /\ Continues("unzip_evict", ddu)
    /\ last_arg' = NoDels
    /\ UNCHANGED <<pvars, cvars, evars, wvars, download_max_size, valid, misused, zip_phase, can_phase, can_size, keep, io, calls>>

\* UnzipEvict with the canonical phase taken to be LOCAL whenever it exists
UnzipEvict_CanAssumedLocal ==
    /\ fpc = "unzip_evict"
    /\ LET can_loc == IF can_phase THEN "LOCAL" ELSE "DNE"
           phase_locs == [f \in PhaseSet |-> IF f = "can" THEN can_loc ELSE "LOCAL"]
           phase_dels == get_phase_deletions(phase_locs, keep)
           ev == EvictPhases(disk, phase_dels)
           d == ddu + RawSize + ev.ddu
       IN /\ disk' = ev.disk
          /\ io' = io + NumDeleted(disk, ev.disk)
          /\ IF ev.raised THEN Raises("load", "internal")
             ELSE IF can_phase THEN Continues("canon", d)
             ELSE Returns("load", d)
    /\ last_arg' = NoDels
    /\ UNCHANGED <<pvars, cvars, evars, wvars, download_max_size, valid, misused, zip_phase, can_phase, can_size, keep, calls>>

\* lines 194-205: localities, policy, evictions; then back in load()
UnzipEvict ==
    /\ fpc = "unzip_evict"
    /\ LET can_loc == IF can_phase
                      THEN (IF is_local("can") THEN "LOCAL" ELSE "REMOTE")
                      ELSE "DNE"
           phase_locs == [f \in PhaseSet |-> IF f = "can" THEN can_loc ELSE "LOCAL"]
           phase_dels == get_phase_deletions(phase_locs, keep)
           ev == EvictPhases(disk, phase_dels)
           d == ddu + RawSize + ev.ddu
       IN /\ disk' = ev.disk
          /\ io' = io + NumDeleted(disk, ev.disk)
          /\ IF ev.raised THEN Raises("load", "internal")
             ELSE IF can_phase THEN Continues("canon", d)
             ELSE Returns("load", d)
    /\ last_arg' = NoDels
    /\ UNCHANGED <<pvars, cvars, evars, wvars, download_max_size, valid, misused, zip_phase, can_phase, can_size, keep, calls>>

\* _canonicalize, lines 213-227: the canonicalizer writes the canonical path
\* from the raw path (it fails on a missing raw file); then the size check
Canonicalize ==
    /\ fpc = "canon"
    /\ IF ~is_local("raw")
       THEN /\ Raises("load", "no_raw")
            /\ UNCHANGED <<disk, io>>
       ELSE \E size \in {CanSize} \cup WrongSizes(CanSize) :
              /\ disk' = [disk EXCEPT !["can"] = size]
              /\ io' = io + 1
              /\ IF can_size # 0 /\ size # can_size
                 THEN Raises("load", "can_size")
                 ELSE Continues("canon_evict", ddu)
    /\ last_arg' = NoDels
    /\ UNCHANGED <<pvars, cvars, evars, wvars, download_max_size, valid, misused, zip_phase, can_phase, can_size, keep, calls>>

\* lines 229-240 and the return of load()
CanonEvict ==
    /\ fpc = "canon_evict"
    /\ LET zip_loc == IF zip_phase
                      THEN (IF is_local("zip") THEN "LOCAL" ELSE "REMOTE")
                      ELSE "DNE"
           phase_locs == [f \in PhaseSet |-> IF f = "zip" THEN zip_loc ELSE "LOCAL"]
           phase_dels == get_phase_deletions(phase_locs, keep)
           ev == EvictPhases(disk, phase_dels)
           d == ddu + disk["can"] + ev.ddu
       IN /\ disk' = ev.disk
          /\ io' = io + NumDeleted(disk, ev.disk)
          /\ IF ev.raised THEN Raises("load", "internal")
             ELSE Returns("load", d)
    /\ last_arg' = NoDels
    /\ UNCHANGED <<pvars, cvars, evars, wvars, download_max_size, valid, misused, zip_phase, can_phase, can_size, keep, calls>>

\* evict(): every phase of the file is deleted
Evict ==
    /\ fpc = "idle"
    /\ calls < MaxCalls
    /\ calls' = calls + 1
    /\ LET ev == EvictPhases(disk, [f \in PhaseSet |-> HasPhase(f)])
       IN /\ disk' = ev.disk
          /\ Returns("evict", ev.ddu)
    /\ last_arg' = NoDels
    /\ UNCHANGED <<pvars, cvars, evars, wvars, download_max_size, valid, misused, zip_phase, can_phase, can_size, keep, io>>

\* evict_phases(phase_dels), called from outside
EvictPhasesCall ==
    /\ fpc = "idle"
    /\ calls < MaxCalls
    /\ calls' = calls + 1
    /\ \E phase_dels \in [PhaseSet -> BOOLEAN] :
         LET ev == EvictPhases(disk, phase_dels)
         IN /\ disk' = ev.disk
            /\ misused' = (misused \/ ev.raised)
            /\ last_arg' = phase_dels
            /\ IF ev.raised THEN Raises("evict_phases", "internal")
               ELSE Returns("evict_phases", ev.ddu)
    /\ UNCHANGED <<pvars, cvars, evars, wvars, download_max_size, valid,
                   zip_phase, can_phase, can_size, keep, io>>

\* The process stops inside load(). A download is atomic and leaves nothing;
\* a write of the decompressed data or of the canonical file that is cut
\* short leaves a part of the file.
Crash ==
    /\ fpc \notin {"down", "idle"}
    /\ \/ UNCHANGED disk
       \/ /\ fpc = "write_tmp"
          /\ \E n \in 1..(RawSize - 1) : disk' = [disk EXCEPT ![RawWriteTarget] = n]
       \/ /\ fpc = "canon"
          /\ is_local("raw")
          /\ \E n \in 1..(CanSize - 1) : disk' = [disk EXCEPT !["can"] = n]
    /\ fpc' = "down"
    /\ last_op' = "crash"
    /\ last_ret' = fpc
    /\ last_delta' = 0
    /\ ddu' = 0
    /\ streak' = 0
    /\ last_arg' = NoDels
    /\ UNCHANGED <<pvars, cvars, evars, wvars, download_max_size, valid, misused, zip_phase, can_phase, can_size, keep, io, usage, calls>>

FNext ==
    \/ Validate
    \/ InitDir
    \/ LoadCall
    \/ DownloadZip
    \/ DownloadRaw
    \/ UnzipRead
    \/ UnzipWrite
    \/ UnzipRename
    \/ UnzipEvict
    \/ Canonicalize
    \/ CanonEvict
    \/ Evict
    \/ EvictPhasesCall
    \/ Crash

----------------------------------------------------------------------------
(* The registration record format, applied to bounded sets of names. *)

\* The code points names are made of: "/", "a", and one that takes two
\* bytes in UTF-8; none is NUL.
Alphabet == {47, 97, 233}

\* The longest name, the largest set, and the most bytes by which the block
\* is longer than the record.
MaxNameLen == 2
MaxNames == 2
MaxPad == 2

DirNames == UNION {[1..n -> Alphabet] : n \in 0..MaxNameLen}

\* The sets of at most MaxNames distinct names
NameSets == UNION {{SeqToSet(q) : q \in [1..n -> DirNames]} : n \in 0..MaxNames}

CInit ==
    /\ locals_in \in NameSets
    /\ buf_len \in {Len(_pack_locals(locals_in)) + k : k \in 0..MaxPad}
    /\ record = <<>>
    /\ decoded = {}
    /\ cpc = "pack"

\* lines 91-93: the record is packed and stored at the start of a block of
\* buf_len zero bytes
Pack ==
    /\ cpc = "pack"
    /\ LET data == _pack_locals(locals_in)
       IN record' = data \o Zeros(buf_len - Len(data))
    /\ cpc' = "unpack"
    /\ UNCHANGED <<pvars, fvars, evars, wvars, locals_in, buf_len, decoded>>

\* lines 82 and 113: their_locals_set = _unpack_locals(bytes(shm.buf))
Unpack ==
    /\ cpc = "unpack"
    /\ decoded' = _unpack_locals(record)
    /\ cpc' = "done"
    /\ UNCHANGED <<pvars, fvars, evars, wvars, locals_in, buf_len, record>>

CNext ==
    \/ Pack
    \/ Unpack

----------------------------------------------------------------------------
(* The eviction policy, applied to every locality vector and keep-spec the
   way init_dir applies it (lines 152-156), and then applied once more. *)

Localities == {"DNE", "REMOTE", "LOCAL"}

\* The deletions are carried out and nothing else changes
ApplyDeletions_Keeps(phase_locs, phase_dels) == phase_locs

\* evict_phases seen on the locality vector: a flagged phase that is LOCAL
\* is deleted and is REMOTE from then on
ApplyDeletions(phase_locs, phase_dels) ==
    [f \in PhaseSet |->
        IF phase_dels[f] /\ phase_locs[f] = "LOCAL" THEN "REMOTE" ELSE phase_locs[f]]

EInit ==
    /\ vec \in [PhaseSet -> Localities]
    /\ keep_spec \in SUBSET PhaseSet
    /\ dels1 = NoDels
    /\ dels2 = NoDels
    /\ epc = "decide"

\* line 153: phase_dels = get_phase_deletions(phase_locs)
Decide ==
    /\ epc = "decide"
    /\ dels1' = get_phase_deletions(vec, keep_spec)
    /\ epc' = "apply"
    /\ UNCHANGED <<pvars, fvars, cvars, wvars, vec, keep_spec, dels2>>

\* line 156: the flagged phases are deleted
Apply ==
    /\ epc = "apply"
    /\ vec' = ApplyDeletions(vec, dels1)
    /\ epc' = "again"
    /\ UNCHANGED <<pvars, fvars, cvars, wvars, keep_spec, dels1, dels2>>

\* The policy on the new vector, with the same keep-spec
DecideAgain ==
    /\ epc = "again"
    /\ dels2' = get_phase_deletions(vec, keep_spec)
    /\ epc' = "done"
    /\ UNCHANGED <<pvars, fvars, cvars, wvars, vec, keep_spec, dels1>>

ENext ==
    \/ Decide
    \/ Apply
    \/ DecideAgain

----------------------------------------------------------------------------
(* The shard writer: flush_shard on the writing thread, the uploads on the
   threads of the executor. *)

\* flush_shard calls in a run, and the threads of the executor (max_workers)
MaxFlushes == 3
MaxWorkers == 2

TaskIds == 1..Len(tasks)

\* The uploads a thread of the executor is running
Running == {i \in TaskIds : tasks[i].st = "running"}

\* The uploads that have failed, whether or not their callback has run
Failed == {i \in TaskIds : tasks[i].st \in {"failed", "raised"}}

\* zip_data_basename or raw_data_basename (lines 101-102, 106-107)
Basename(kind) == IF compression THEN <<"zip", kind>> ELSE <<"raw", kind>>

\* executor.submit(self.cloud_writer.upload_file, basename) for a file of
\* the shard being flushed, with the done-callback added
Submit(kind) ==
    Append(tasks, [shard |-> Len(shards),
                   kind |-> kind,
                   file |-> Basename(kind),
                   st |-> "pending",
                   late |-> entered_late])

\* cancel_future_jobs: the executor is shut down and the uploads that have
\* not started are cancelled
cancel_future_jobs ==
    /\ shutdown' = TRUE
    /\ tasks' = [i \in TaskIds |->
                   IF tasks[i].st = "pending"
                   THEN [tasks[i] EXCEPT !.st = "cancelled"] ELSE tasks[i]]

WInit ==
    /\ compression \in BOOLEAN
    /\ event = FALSE
    /\ shards = <<>>
    /\ tasks = <<>>
    /\ shutdown = FALSE
    /\ wpc = "idle"
    /\ flushes = 0
    /\ entered_late = FALSE

\* FlushEnter without the test of the event (line 77)
FlushEnter_NoEventCheck ==
    /\ wpc = "idle"
    /\ flushes < MaxFlushes
    /\ flushes' = flushes + 1
    /\ wpc' = "encode"
    /\ entered_late' = (Failed # {})
    /\ UNCHANGED <<tasks, shutdown>>
    /\ UNCHANGED <<pvars, fvars, cvars, evars, compression, event, shards>>

\* lines 77-81: flush_shard is called and looks at the event
FlushEnter ==
    /\ wpc = "idle"
    /\ flushes < MaxFlushes
    /\ flushes' = flushes + 1
    /\ IF event
       THEN /\ cancel_future_jobs
            /\ UNCHANGED <<wpc, entered_late>>
       ELSE /\ wpc' = "encode"
            /\ entered_late' = (Failed # {})
            /\ UNCHANGED <<tasks, shutdown>>
    /\ UNCHANGED <<pvars, fvars, cvars, evars, compression, event, shards>>

\* lines 83-98: the shard is named, encoded, written (and compressed), and
\* its descriptor is appended
FlushAppend ==
    /\ wpc = "encode"
    /\ shards' = Append(shards, [samples |-> flushes, zip |-> compression])
    /\ wpc' = "submit_data"
    /\ UNCHANGED <<pvars, fvars, cvars, evars, compression, event, tasks, shutdown,
                   flushes, entered_late>>

\* lines 101-103: the upload of the data file is submitted
FlushSubmitData ==
    /\ wpc = "submit_data"
    /\ IF shutdown
       THEN /\ wpc' = "idle"
            /\ UNCHANGED tasks
       ELSE /\ tasks' = Submit("data")
            /\ wpc' = "submit_meta"
    /\ UNCHANGED <<pvars, fvars, cvars, evars, compression, event, shards, shutdown,
                   flushes, entered_late>>

\* lines 106-108: the upload of the meta file is submitted; flush_shard
\* returns
FlushSubmitMeta ==
    /\ wpc = "submit_meta"
    /\ IF shutdown
       THEN UNCHANGED tasks
       ELSE tasks' = Submit("meta")
    /\ wpc' = "idle"
    /\ UNCHANGED <<pvars, fvars, cvars, evars, compression, event, shards, shutdown,
                   flushes, entered_late>>

\* A free thread of the executor takes the oldest upload that waits
UploadStart(i) ==
    /\ i \in TaskIds
    /\ tasks[i].st = "pending"
    /\ \A j \in 1..(i - 1) : tasks[j].st # "pending"
    /\ Cardinality(Running) < MaxWorkers
    /\ tasks' = [tasks EXCEPT ![i].st = "running"]
    /\ UNCHANGED <<pvars, fvars, cvars, evars, compression, event, shards, shutdown,
                   wpc, flushes, entered_late>>

\* cloud_writer.upload_file ends: the file is uploaded, or the upload has
\* failed after its retries
UploadEnd(i) ==
    /\ i \in TaskIds
    /\ tasks[i].st = "running"
    /\ \E st \in {"ok", "failed"} : tasks' = [tasks EXCEPT ![i].st = st]
    /\ UNCHANGED <<pvars, fvars, cvars, evars, compression, event, shards, shutdown,
                   wpc, flushes, entered_late>>

\* exception_callback, the done-callback of lines 103 and 108, on an upload
\* that failed: it sets the event
ExceptionCallback(i) ==
    /\ i \in TaskIds
    /\ tasks[i].st = "failed"
    /\ tasks' = [tasks EXCEPT ![i].st = "raised"]
    /\ event' = TRUE
    /\ UNCHANGED <<pvars, fvars, cvars, evars, compression, shards, shutdown,
                   wpc, flushes, entered_late>>

WNext ==
    \/ FlushEnter
    \/ FlushAppend
    \/ FlushSubmitData
    \/ FlushSubmitMeta
    \/ \E i \in 1..(2 * MaxFlushes) : UploadStart(i)
    \/ \E i \in 1..(2 * MaxFlushes) : UploadEnd(i)
    \/ \E i \in 1..(2 * MaxFlushes) : ExceptionCallback(i)

----------------------------------------------------------------------------
(* The specifications: each part runs with the other parts held still. *)

PIdle ==
    /\ my_locals = [g \in Groups |-> <<>>]
    /\ shm = [m \in Machines |-> [n \in Names |-> NoShm]]
    /\ pc = [p \in Procs |-> "start"]
    /\ prefix_int = [p \in Procs |-> 0]
    /\ dist_init = [p \in Procs |-> FALSE]
    /\ destroy_dist = [p \in Procs |-> FALSE]
    /\ ret = [p \in Procs |-> <<>>]
    /\ was_init = FALSE

FIdle ==
    /\ zip_phase = FALSE
    /\ can_phase = FALSE
    /\ can_size = 0
    /\ keep = {"raw"}
    /\ disk = [f \in Files |-> 0]
    /\ fpc = "down"
    /\ ddu = 0
    /\ io = 0
    /\ usage = 0
    /\ last_op = "none"
    /\ last_ret = "none"
    /\ last_delta = 0
    /\ streak = 0
    /\ calls = 0
    /\ misused = FALSE
    /\ last_arg = NoDels
    /\ download_max_size = 0
    /\ valid = "none"

CIdle ==
    /\ locals_in = {}
    /\ buf_len = 0
    /\ record = <<>>
    /\ decoded = {}
    /\ cpc = "pack"

EIdle ==
    /\ vec = [f \in PhaseSet |-> "DNE"]
    /\ keep_spec = {}
    /\ dels1 = NoDels
    /\ dels2 = NoDels
    /\ epc = "decide"

WIdle ==
    /\ compression = FALSE
    /\ event = FALSE
    /\ shards = <<>>
    /\ tasks = <<>>
    /\ shutdown = FALSE
    /\ wpc = "idle"
    /\ flushes = 0
    /\ entered_late = FALSE

InitPrefix == PInit /\ FIdle /\ CIdle /\ EIdle /\ WIdle

InitFile == FInit /\ PIdle /\ CIdle /\ EIdle /\ WIdle

SpecPrefix == InitPrefix /\ [][PNext]_vars

SpecFile == InitFile /\ [][FNext]_vars

InitPack == CInit /\ PIdle /\ FIdle /\ EIdle /\ WIdle

SpecPack == InitPack /\ [][CNext]_vars

InitPolicy == EInit /\ PIdle /\ FIdle /\ CIdle /\ WIdle

SpecPolicy == InitPolicy /\ [][ENext]_vars

InitWriter == WInit /\ PIdle /\ FIdle /\ CIdle /\ EIdle

SpecWriter == InitWriter /\ [][WNext]_vars

----------------------------------------------------------------------------
(* Properties of the prefix allocator *)

Leaders == {p \in Procs : is_local_leader(p)}

\* The blocks of machine m that exist
Live(m) == {n \in Names : shm[m][n].st # "absent"}

\* The directories the publisher of block n on machine m claims
Claimed(m, n) == my_locals_set(shm[m][n].owner)

\* Some live block of another group on p's machine claims one of p's dirs
ConflictsLive(p) ==
    \E n \in Live(MachineOf(p)) :
        /\ GroupOf(shm[MachineOf(p)][n].owner) # GroupOf(p)
        /\ Claimed(MachineOf(p), n) \cap my_locals_set(p) # {}

\* C1: any two registration records that are live at the same time on one
\* machine claim disjoint sets of local directories.
C1_LiveRecordsDisjoint ==
    \A m \in Machines : \A n1, n2 \in Live(m) :
        n1 # n2 => Claimed(m, n1) \cap Claimed(m, n2) = {}

\* The sets of the groups are pairwise disjoint and without duplicates
PairwiseDisjoint ==
    /\ \A g \in Groups : ~HasDuplicate(my_locals[g])
    /\ \A g, h \in Groups :
          g # h => SeqToSet(my_locals[g]) \cap SeqToSet(my_locals[h]) = {}

\* C5: when the groups' sets are pairwise disjoint, no leader fails to
\* resolve a namespace, and two leaders on one machine that hold a namespace
\* at the same time hold different ones.
C5_DisjointGroupsResolveDistinct ==
    PairwiseDisjoint =>
        /\ \A p \in Leaders : pc[p] \notin {"fail_overlap", "fail_exists"}
        /\ \A p, q \in Leaders :
              (p # q /\ MachineOf(p) = MachineOf(q) /\ pc[p] = "done" /\ pc[q] = "done")
                 => ret[p] # ret[q]

\* C6: a leader whose set intersects the set of a live record of another
\* group does not get past its scan, and the step in which a leader fails
\* with the overlap error leaves the shared memory blocks as they were.
C6_OverlapFailsBeforePublish ==
    [][\A p \in Leaders :
          /\ (pc[p] = "scan" /\ pc'[p] = "create") => ~ConflictsLive(p)
          /\ (pc[p] = "scan" /\ pc'[p] = "fail_overlap") => shm' = shm]_vars

\* C7: all participants of one group that return, return the same namespace.
C7_GroupReturnsOnePrefix ==
    \A p, q \in Procs :
        (GroupOf(p) = GroupOf(q) /\ ret[p] # <<>> /\ ret[q] # <<>>) => ret[p] = ret[q]

\* The block at the slot process p's scan is at, or p has published
Slot(p) == shm[MachineOf(p)][PrefixStr(prefix_int[p])]

\* Leader q's record is created and written
Published(q) == Slot(q).st = "written" /\ Slot(q).owner = q

\* C16: while a non-leader scans, every participant of its group has passed
\* the first barrier and its leader's record is created and written; before
\* the barrier a non-leader has attached to nothing.
C16_ScanAfterPublish ==
    \A p \in Procs \ Leaders :
        /\ pc[p] = "nlscan" =>
              /\ \A q \in Members(GroupOf(p)) :
                     pc[q] \in {"nlscan", "barrier2", "fail_internal"}
              /\ Published(LeaderOf(p))
        /\ pc[p] \in {"start", "barrier1"} => prefix_int[p] = 0

\* C16 witness: a non-leader's scan has passed slot 0 and is at the slot
\* its leader published.
C16_Witness ==
    \E p \in Procs \ Leaders :
        /\ pc[p] = "nlscan"
        /\ prefix_int[p] > 0
        /\ prefix_int[p] = prefix_int[LeaderOf(p)]

\* C17: when a participant of a group of several has returned, every
\* participant of the group has resolved its slot and returned with it: no
\* one is still before the second barrier, and each leader that has not yet
\* ended has its record written.
C17_ReturnAfterAllResolved ==
    \A p \in Procs :
        (num_ranks(p) > 1 /\ pc[p] \in {"done", "exited"})
           => \A q \in Members(GroupOf(p)) :
                 /\ pc[q] \in {"done", "exited"}
                 /\ ret[q] # <<>>
                 /\ (is_local_leader(q) /\ pc[q] = "done") => Published(q)

\* C17 witness: a leader and its non-leader have returned.
C17_Witness ==
    \E p \in Procs \ Leaders :
        pc[p] = "done" /\ pc[LeaderOf(p)] = "done" /\ ret[p] = ret[LeaderOf(p)]

\* C18: a process that has returned has the transport as it found it; the
\* call tears it down exactly when it initialized it, and it initializes it
\* only in a group of several with no transport active on entry.
C18_TransportAsFound ==
    \A p \in Procs :
        /\ pc[p] \in {"done", "exited"} =>
              /\ dist_init[p] = was_init
              /\ destroy_dist[p] <=> (num_ranks(p) > 1 /\ ~was_init)
        /\ (dist_init[p] /\ ~was_init) => num_ranks(p) > 1
        /\ destroy_dist[p] => ~was_init

\* C18 witness: a process returned from a call that initialized the
\* transport and tore it down.
C18_Witness ==
    \E p \in Procs : pc[p] = "done" /\ destroy_dist[p] /\ ~dist_init[p]

\* Process p makes a round of its scan in this step
ScanStep(p) ==
    /\ pc[p] \in {"scan", "nlscan"}
    /\ pc'[p] # pc[p] \/ prefix_int'[p] # prefix_int[p]

\* C19: no scan attaches to a block that is created and not yet written,
\* and a written block keeps its contents as long as it exists.
C19_ReadsOnlyPublished ==
    [][/\ \A p \in Procs : ScanStep(p) => Slot(p).st # "created"
       /\ \A m \in Machines : \A n \in Names :
             (shm[m][n].st = "written" /\ shm'[m][n].st # "absent")
                => shm'[m][n] = shm[m][n]]_vars

\* C20: a non-leader that returns, returns the slot its leader published,
\* and no non-leader fails with the internal error.
C20_NonLeaderFindsLeaderSlot ==
    \A p \in Procs \ Leaders :
        /\ ret[p] # <<>> => ret[p] = PrefixStr(prefix_int[LeaderOf(p)])
        /\ pc[p] # "fail_internal"

----------------------------------------------------------------------------
(* Properties of the shard file *)

\* load() has returned and nothing was called since
LoadReturned == last_op = "load" /\ last_ret = "ok"

\* The size the index declares for phase f, 0 when it declares none
Declared(f) == IF f = "zip" THEN ZipSize ELSE IF f = "raw" THEN RawSize ELSE can_size

\* The bytes of the file's phases in the local directory
PhaseBytes == disk["zip"] + disk["raw"] + disk["can"]

C3_NoMismatchAccepted ==
    (LoadReturned /\ Declared(TerminalPhase) # 0)
        => disk[TerminalPhase] = Declared(TerminalPhase)

\* C4: between calls, the sum of the deltas returned to the caller is the
\* number of bytes of the file's phases on local disk (in runs in which
\* evict_phases was given only phases the file has).
C4_DeltasMatchDisk ==
    (fpc = "idle" /\ ~misused) => usage = PhaseBytes

\* A call of load()
IsLoadCall == fpc = "idle" /\ last_op' = "load" /\ calls' = calls + 1

\* What a load() that is a no-op does
LoadNoOp ==
    /\ disk' = disk
    /\ fpc' = "idle"
    /\ last_ret' = "ok"
    /\ last_delta' = 0
    /\ io' = 0
    /\ usage' = usage

\* C8: a load() called with the terminal phase local returns 0 at once and
\* changes no file; so does a load() called directly after a load() that
\* returned.
C8_LoadOnTerminalIsNoOp ==
    [][/\ (IsLoadCall /\ is_local(TerminalPhase)) => LoadNoOp
       /\ (IsLoadCall /\ streak >= 1) => LoadNoOp]_vars

\* C8 witness: a second load() returned directly after a load() that had
\* transferred or produced something.
C8_Witness ==
    streak = 2 /\ usage > 0 /\ last_delta = 0 /\ io = 0

\* C9 as stated: a load() that ends while the local compressed file has not
\* its declared length has raised the size error, and neither the raw file
\* nor its temp file exists.
C9_MismatchAlwaysRaises ==
    (last_op = "load" /\ last_ret # "running" /\ disk["zip"] \notin {0, ZipSize})
        => (last_ret = "zip_size" /\ disk["raw"] = 0 /\ disk["tmp"] = 0)

\* C9 amended: a load() that reaches decompression with a compressed file of
\* another length than declared goes no further than the length check, and
\* when it has raised the size error neither the raw file nor its temp file
\* exists.
C9_MismatchRaisesInUnzip ==
    /\ fpc \in {"write_tmp", "rename", "unzip_evict"} => disk["zip"] = ZipSize
    /\ (fpc = "unzip" /\ disk["zip"] # ZipSize) => (disk["raw"] = 0 /\ disk["tmp"] = 0)
    /\ (last_op = "load" /\ last_ret = "zip_size")
          => (disk["zip"] # ZipSize /\ disk["raw"] = 0 /\ disk["tmp"] = 0)

\* C9 witness: a load() raised the size error of the compressed file.
C9_Witness ==
    last_op = "load" /\ last_ret = "zip_size" /\ disk["zip"] > 0

\* C10: the raw file is absent or has its declared size; after a stop
\* between the write of the temp file and the rename it is absent and
\* locate() reports it REMOTE.
C10_RawNeverPartial ==
    /\ disk["raw"] \in {0, RawSize}
    /\ (last_op = "crash" /\ last_ret \in {"write_tmp", "rename"})
          => (disk["raw"] = 0 /\ locate(Listing)["raw"] = "REMOTE")

\* C10 witness: the process stopped with the temp file written whole and not
\* yet renamed.
C10_Witness ==
    last_op = "crash" /\ last_ret = "rename" /\ disk["tmp"] = RawSize

\* A call of evict_phases
IsEvictPhasesCall == fpc = "idle" /\ last_op' = "evict_phases" /\ calls' = calls + 1

\* The bytes of the phases that vector v flags
FlaggedBytes(v) ==
    (IF v["zip"] THEN disk["zip"] ELSE 0) + (IF v["raw"] THEN disk["raw"] ELSE 0)
        + (IF v["can"] THEN disk["can"] ELSE 0)

\* C14: evict_phases(v) fails with the internal error when v flags a slot
\* the file has not; otherwise it returns, every flagged phase is absent
\* afterwards, every other file is as it was, and the delta is minus the
\* bytes of the flagged phases that were present.
C14_EvictPhasesExact ==
    [][IsEvictPhasesCall =>
          IF \E f \in PhaseSet : last_arg'[f] /\ ~HasPhase(f)
          THEN last_ret' = "internal"
          ELSE /\ last_ret' = "ok"
               /\ \A f \in PhaseSet : last_arg'[f] => disk'[f] = 0
               /\ \A f \in Files : (f \notin PhaseSet \/ ~last_arg'[f]) => disk'[f] = disk[f]
               /\ last_delta' = 0 - FlaggedBytes(last_arg')]_vars

\* C14 witness: evict_phases returned after it deleted a phase that was
\* present, was given a flagged phase that was absent, and left a phase.
C14_Witness ==
    /\ last_op = "evict_phases" /\ last_ret = "ok"
    /\ last_delta = 0 - RawSize
    /\ last_arg["zip"] /\ last_arg["raw"] /\ ~last_arg["can"]
    /\ disk["can"] > 0

\* The size of the phase the file is downloaded in
FirstPhaseSize == IF zip_phase THEN ZipSize ELSE RawSize

\* C15: with a download size limit configured, validate() fails for a file
\* whose first configured phase is larger than the limit.
C15_ValidateChecksFirstPhase ==
    (valid # "none" /\ download_max_size # 0 /\ FirstPhaseSize > download_max_size)
        => valid = "size_limit"

\* C21: when load() has returned, the policy applied to the localities of
\* the directory flags nothing; and under the keep-spec "canonical only", on
\* a file with compressed, raw and canonical phases, only the canonical
\* phase is local.
C21_ReturnLeavesNothingFlagged ==
    /\ LoadReturned => get_phase_deletions(locate(Listing), keep) = NoDels
    /\ (LoadReturned /\ zip_phase /\ can_phase /\ keep = {"can"})
          => (disk["zip"] = 0 /\ disk["raw"] = 0 /\ disk["can"] > 0)

----------------------------------------------------------------------------
(* Properties of the registration record format *)

\* C11: decoding the stored encoding of a set of distinct names without NUL
\* gives back the set, for every set of 0..MaxNames names and also when the
\* block is longer than the record.
C11_RoundTrip ==
    cpc = "done" => decoded = locals_in

----------------------------------------------------------------------------
(* Properties of the eviction policy *)

----------------------------------------------------------------------------
(* Properties of the shard writer *)

\* C12: no upload is submitted by a flush_shard that was entered after an
\* upload of an earlier shard had failed.
C12_NoSubmitAfterFailure ==
    \A i \in TaskIds : ~tasks[i].late

\* C22 as stated: in every state the number of submitted uploads is twice
\* the number of recorded shard descriptors.
C22_SubmittedTwiceDescriptors ==
    Len(tasks) = 2 * Len(shards)

\* A call of flush_shard
IsFlushCall == wpc = "idle" /\ flushes' = flushes + 1

\* The uploads of the shards whose flush is complete: the data file and then
\* the meta file of each shard, the compressed file when the writer
\* compresses and the raw file when it does not
PairsSubmitted ==
    \A k \in 1..Len(shards) :
        /\ 2 * k - 1 <= Len(tasks) =>
               /\ tasks[2 * k - 1].shard = k
               /\ tasks[2 * k - 1].file = <<IF compression THEN "zip" ELSE "raw", "data">>
        /\ 2 * k <= Len(tasks) =>
               /\ tasks[2 * k].shard = k
               /\ tasks[2 * k].file = <<IF compression THEN "zip" ELSE "raw", "meta">>

\* The counts between calls and inside a flush_shard that goes on
FlushCounts ==
    /\ wpc \in {"idle", "encode"} => Len(tasks) = 2 * Len(shards)
    /\ wpc = "submit_data" => Len(tasks) + 2 = 2 * Len(shards)
    /\ wpc = "submit_meta" => Len(tasks) + 1 = 2 * Len(shards)
    /\ PairsSubmitted

\* What a call of flush_shard does on entry
FlushEntry ==
    IsFlushCall =>
        IF event
        THEN /\ wpc' = "idle"
             /\ shards' = shards
             /\ Len(tasks') = Len(tasks)
             /\ \A i \in 1..Len(tasks) :
                   /\ tasks'[i].st # "pending"
                   /\ tasks[i].st # "pending" => tasks'[i] = tasks[i]
        ELSE /\ wpc' = "encode"
             /\ shards' = shards
             /\ tasks' = tasks

\* What a flush_shard that goes on does until it returns
FlushBody ==
    /\ (wpc = "encode" /\ wpc' # wpc) =>
           (Len(shards') = Len(shards) + 1 /\ tasks' = tasks /\ wpc' = "submit_data")
    /\ (wpc = "submit_data" /\ wpc' # wpc) =>
           (Len(tasks') = Len(tasks) + 1 /\ shards' = shards /\ wpc' = "submit_meta")
    /\ (wpc = "submit_meta" /\ wpc' # wpc) =>
           (Len(tasks') = Len(tasks) + 1 /\ shards' = shards /\ wpc' = "idle")
    /\ wpc' = wpc => (Len(tasks') = Len(tasks) /\ shards' = shards)

\* C22 amended: a flush_shard entered with the event set cancels the uploads
\* that wait, submits nothing and appends nothing; one entered with the
\* event clear appends one descriptor and then submits the data file and
\* the meta file of its shard; and whenever no flush_shard is in progress
\* the number of submitted uploads is twice the number of descriptors.
C22_FlushSubmitsPair ==
    []FlushCounts /\ [][FlushEntry /\ FlushBody]_vars

\* C22 witness: three flushes were made, the third was entered with the
\* event set and cancelled the uploads of the second shard, which waited.
C22_Witness ==
    /\ wpc = "idle" /\ flushes = 3 /\ shutdown
    /\ Len(shards) = 2 /\ Len(tasks) = 4
    /\ tasks[3].st = "cancelled" /\ tasks[4].st = "cancelled"

============================================================================
